---------------------------- MODULE Spec2Model ----------------------------
(***************************************************************************)
(* Battery health metrics: BatteryHealthProcessor of                       *)
(* backend/health_processing.py and UploadHandler of                       *)
(* backend/upload_handler.py as a state machine.                           *)
(*                                                                         *)
(* A processor object is constructed once (nominal_capacity_ah and the     *)
(* voltage->SoC interpolator), then its methods are called one at a time.  *)
(* A call's arguments, locals and result live in the variables below until *)
(* the call returns.                                                       *)
(*                                                                         *)
(* Python floats are modelled as exact rationals <<n, d>> in lowest terms  *)
(* with d > 0; None is the empty tuple.                                    *)
(***************************************************************************)
EXTENDS Integers, Sequences, FiniteSets

VARIABLES
    ctor_arg,              \* argument given to __init__ (None: the default)
    nominal_capacity_ah,   \* self.nominal_capacity_ah
    op,                    \* the method being executed, "idle" between calls
    voltage,               \* estimate_soc: argument
    soc,                   \* estimate_soc: return value
    voltage_data,          \* calculate_internal_resistance: argument
    current_data,          \* calculate_internal_resistance: argument
    coeffs,                \* calculate_internal_resistance: np.polyfit's result
    resistance,            \* calculate_internal_resistance: return value
    raised,                \* exception raised by the call ("none" if it returned)
    warned,                \* warning issued by the call ("none" if there was none)
    current_capacity_ah,   \* estimate_soh: argument
    internal_resistance,   \* estimate_soh: argument
    cycles,                \* estimate_soh: argument
    soh_factors,           \* estimate_soh: local list
    soh,                   \* estimate_soh: return value
    file_rows,             \* process_measurement_file: the data rows of the CSV file
    lstsq_on_nan,          \* process_measurement_file: what the LAPACK build
                           \* behind np.polyfit does with a NaN during the call
    metrics,               \* process_measurement_file: return value
    metric_data,           \* _check_thresholds: argument
    thresholds,            \* _check_thresholds: argument
    checks,                \* _check_thresholds: local list
    passes,                \* _check_thresholds: return value
    pc,                    \* process_and_store_metrics: the statement reached
    measurement_id,        \* process_and_store_metrics: argument
    threshold_rows,        \* process_and_store_metrics: local thresholds, the
                           \* rows the query returned
    threshold_dict,        \* process_and_store_metrics: local
    threshold_reads,       \* process_and_store_metrics: HealthThreshold
                           \* queries made by the call so far
    health_metrics,        \* process_and_store_metrics: local list
    http_status,           \* create_measurement: status of the response
    db_thresholds,         \* table health_thresholds, in threshold_id order
    db_measurements,       \* table measurements, in measurement_id order
    db_health_metrics      \* table health_metrics, in metric_id order

vars == <<ctor_arg, nominal_capacity_ah, op, voltage, soc, voltage_data,
          current_data, coeffs, resistance, raised, warned,
          current_capacity_ah, internal_resistance, cycles, soh_factors, soh,
          file_rows, lstsq_on_nan, metrics,
          metric_data, thresholds, checks, passes,
          pc, measurement_id, threshold_rows, threshold_dict, threshold_reads,
          health_metrics, http_status,
          db_thresholds, db_measurements, db_health_metrics>>

\* The frame of process_measurement_file.
fileVars == <<file_rows, lstsq_on_nan, metrics>>

thresholdVars == <<metric_data, thresholds, checks, passes>>

uploadVars == <<pc, measurement_id, threshold_rows, threshold_dict,
                threshold_reads, health_metrics, http_status>>

dbVars == <<db_thresholds, db_measurements, db_health_metrics>>

None == <<>>

---------------------------------------------------------------------------
(* Exact rational arithmetic standing for float arithmetic.                *)

Abs(n) == IF n < 0 THEN -n ELSE n

RECURSIVE GCD(_, _)
GCD(a, b) == IF b = 0 THEN a ELSE GCD(b, a % b)

Sign(n) == IF n < 0 THEN -1 ELSE 1

\* The rational n/d (d # 0) in lowest terms with a positive denominator.
Q(n, d) ==
    LET g == GCD(Abs(n), Abs(d))
    IN  <<Sign(d) * (n \div g), Abs(d) \div g>>

R(n) == <<n, 1>>

RAdd(a, b) == Q(a[1] * b[2] + b[1] * a[2], a[2] * b[2])
RSub(a, b) == Q(a[1] * b[2] - b[1] * a[2], a[2] * b[2])
RMul(a, b) == Q(a[1] * b[1], a[2] * b[2])
RDiv(a, b) == Q(a[1] * b[2], a[2] * b[1])
RNeg(a)    == <<-a[1], a[2]>>
RLe(a, b)  == a[1] * b[2] <= b[1] * a[2]
RLt(a, b)  == a[1] * b[2] < b[1] * a[2]

\* Python's max(a, b) and numpy's clip(x, lo, hi).
RMax(a, b) == IF RLt(a, b) THEN b ELSE a
RMin(a, b) == IF RLt(b, a) THEN b ELSE a
clip(x, lo, hi) == RMin(RMax(x, lo), hi)

RECURSIVE RSum(_)
RSum(s) == IF s = <<>> THEN R(0) ELSE RAdd(s[1], RSum(Tail(s)))

\* numpy.mean of a non-empty sequence.
mean(s) == RDiv(RSum(s), R(Len(s)))

\* A voltage given in hundredths of a volt, in volts.
Volts(cv) == Q(cv, 100)

---------------------------------------------------------------------------
(* VoltageSocCurve                                                         *)

\* The class attribute: a dict {voltage: soc}, here its set of items.
VOLTAGE_SOC_TABLE ==
    { <<Volts(275), 0>>,  <<Volts(300), 5>>,  <<Volts(330), 10>>,
      <<Volts(350), 20>>, <<Volts(360), 30>>, <<Volts(365), 40>>,
      <<Volts(370), 50>>, <<Volts(375), 60>>, <<Volts(380), 70>>,
      <<Volts(390), 80>>, <<Volts(400), 90>>, <<Volts(410), 95>>,
      <<Volts(420), 100>> }

TableKeys == { item[1] : item \in VOLTAGE_SOC_TABLE }

TableLookup(k) == (CHOOSE item \in VOLTAGE_SOC_TABLE : item[1] = k)[2]

\* sorted(): the elements of a set of rationals in ascending order.
RECURSIVE sorted(_)
sorted(S) ==
    IF S = {} THEN <<>>
    ELSE LET m == CHOOSE x \in S : \A y \in S : RLe(x, y)
         IN  <<m>> \o sorted(S \ {m})

\* _build_soc_interpolator: the x and y arrays handed to interp1d.
interp_x == sorted(TableKeys)
interp_y == [i \in 1..Len(interp_x) |-> R(TableLookup(interp_x[i]))]

\* numpy.searchsorted(x, v) (side='left'): how many entries of x are below v.
searchsorted(x, v) == Cardinality({ i \in 1..Len(x) : RLt(x[i], v) })

\* The segment interp1d evaluates v on: the insertion index clipped to
\* 1 .. len(x)-1, so that a voltage outside the table uses the first or the
\* last segment. The value is the 1-based position of the segment's lower
\* point; the upper point is the next one.
segment_of(v) ==
    LET idx == searchsorted(interp_x, v)
    IN  IF idx < 1 THEN 1
        ELSE IF idx > Len(interp_x) - 1 THEN Len(interp_x) - 1
        ELSE idx

\* A variant that measures the offset from the segment's upper point.
soc_interpolator_reversed(v) ==
    LET lo    == segment_of(v)
        hi    == lo + 1
        slope == RDiv(RSub(interp_y[hi], interp_y[lo]),
                      RSub(interp_x[hi], interp_x[lo]))
    IN  RAdd(RMul(slope, RSub(interp_x[hi], v)), interp_y[lo])

\* A variant that holds the value of the segment's lower point (kind='previous').
soc_interpolator_previous(v) == interp_y[segment_of(v)]

\* interp1d(kind='linear', fill_value='extrapolate') evaluated at v:
\* slope = (y_hi - y_lo) / (x_hi - x_lo); y_new = slope * (v - x_lo) + y_lo.
soc_interpolator(v) ==
    LET lo    == segment_of(v)
        hi    == lo + 1
        slope == RDiv(RSub(interp_y[hi], interp_y[lo]),
                      RSub(interp_x[hi], interp_x[lo]))
    IN  RAdd(RMul(slope, RSub(v, interp_x[lo])), interp_y[lo])

\* A variant that returns the interpolated value without clipping it.
estimate_soc_unclamped(v) == soc_interpolator(v)

\* soc = float(self.soc_interpolator(voltage)); return np.clip(soc, 0, 100)
estimate_soc(v) == clip(soc_interpolator(v), R(0), R(100))

---------------------------------------------------------------------------
(* ResistanceEstimator                                                     *)

\* A variant that lets a single sample through.
too_few_off_by_one(n) == n < 1

\* The guard of both early returns: fewer than 2 samples.
too_few(n) == n < 2

\* A variant that keeps every sample, zero current or not.
nonzero_mask_keep_all(current) == [i \in 1..Len(current) |-> TRUE]

\* mask = current_data != 0, elementwise.
nonzero_mask(current) == [i \in 1..Len(current) |-> current[i] # R(0)]

\* mask.sum()
mask_sum(mask) == Cardinality({ i \in 1..Len(mask) : mask[i] })

\* data[mask] for a boolean mask as long as data: the selected entries, in order.
RECURSIVE take_masked(_, _)
take_masked(data, mask) ==
    IF data = <<>> THEN <<>>
    ELSE IF mask[1] THEN <<data[1]>> \o take_masked(Tail(data), Tail(mask))
         ELSE take_masked(Tail(data), Tail(mask))

RECURSIVE RDot(_, _)
RDot(x, y) == IF x = <<>> THEN R(0)
              ELSE RAdd(RMul(x[1], y[1]), RDot(Tail(x), Tail(y)))

\* A variant that computes the regression line in closed form and so divides
\* by zero when the x are all equal.
polyfit_closed_form(x, y) ==
    LET n   == R(Len(x))
        sx  == RSum(x)
        sy  == RSum(y)
        sxx == RDot(x, x)
        sxy == RDot(x, y)
        det == RSub(RMul(n, sxx), RMul(sx, sx))
    IN  IF det # R(0)
        THEN LET slope == RDiv(RSub(RMul(n, sxy), RMul(sx, sy)), det)
             IN  [coeffs |-> <<slope, RDiv(RSub(sy, RMul(slope, sx)), n)>>,
                  warned |-> "none", raised |-> "none"]
        ELSE [coeffs |-> None, warned |-> "none", raised |-> "ZeroDivisionError"]

\* numpy.polyfit(x, y, 1) for len(x) = len(y) >= 1 and no x equal to 0: the
\* coefficients <<slope, intercept>>, and the warning and exception of the
\* call. numpy solves the least-squares problem on the column-scaled
\* Vandermonde matrix with lstsq, which returns the minimum-norm minimiser and
\* does not raise on a rank-deficient matrix. When the x are not all equal
\* that is the unique line of simple linear regression. When they are all
\* equal to c the matrix has rank 1, numpy issues a RankWarning and the
\* minimum-norm minimiser on the scaled columns is slope = mean(y)/(2c),
\* intercept = mean(y)/2.
polyfit(x, y) ==
    LET n   == R(Len(x))
        sx  == RSum(x)
        sy  == RSum(y)
        sxx == RDot(x, x)
        sxy == RDot(x, y)
        det == RSub(RMul(n, sxx), RMul(sx, sx))
    IN  IF det # R(0)
        THEN LET slope == RDiv(RSub(RMul(n, sxy), RMul(sx, sy)), det)
             IN  [coeffs |-> <<slope, RDiv(RSub(sy, RMul(slope, sx)), n)>>,
                  warned |-> "none", raised |-> "none"]
        ELSE [coeffs |-> <<RDiv(mean(y), RMul(R(2), x[1])), RDiv(mean(y), R(2))>>,
              warned |-> "RankWarning", raised |-> "none"]

\* A variant without the floor at 0.
to_milliohms_unfloored(slope) == RMul(RNeg(slope), R(1000))

\* resistance_ohms = -coeffs[0]; return max(0, resistance_ohms * 1000)
to_milliohms(slope) == RMax(R(0), RMul(RNeg(slope), R(1000)))

\* calculate_internal_resistance: the return value, polyfit's coefficients
\* (None when it is not reached), and the exception and warning of the call.
\* voltage_data[mask] raises IndexError when the mask and the data differ in
\* length; an exception of polyfit propagates.
calculate_internal_resistance(voltages, currents) ==
    LET mask == nonzero_mask(currents)
    IN  IF too_few(Len(voltages)) \/ too_few(Len(currents))
        THEN [result |-> R(0), coeffs |-> None, raised |-> "none", warned |-> "none"]
        ELSE IF too_few(mask_sum(mask))
        THEN [result |-> R(0), coeffs |-> None, raised |-> "none", warned |-> "none"]
        ELSE IF Len(voltages) # Len(mask)
        THEN [result |-> None, coeffs |-> None, raised |-> "IndexError", warned |-> "none"]
        ELSE LET v_filtered == take_masked(voltages, mask)
                 i_filtered == take_masked(currents, mask)
                 fit        == polyfit(i_filtered, v_filtered)
             IN  IF fit.raised # "none"
                 THEN [result |-> None, coeffs |-> None,
                       raised |-> fit.raised, warned |-> fit.warned]
                 ELSE [result |-> to_milliohms(fit.coeffs[1]),
                       coeffs |-> fit.coeffs,
                       raised |-> "none", warned |-> fit.warned]

---------------------------------------------------------------------------
(* HealthScoreEstimator                                                    *)

\* __init__'s parameter default.
init_nominal_capacity(arg) == IF arg = None THEN R(50) ELSE arg

\* (current_capacity_ah / self.nominal_capacity_ah) * 100
capacity_soh(capacity, nominal) == RMul(RDiv(capacity, nominal), R(100))

\* A variant that divides by the aged resistance instead of the span.
resistance_soh_wrong_span(r) ==
    LET base_resistance == R(50)
        aged_resistance == R(150)
    IN  IF RLe(r, base_resistance) THEN R(100)
        ELSE IF RLe(aged_resistance, r) THEN R(70)
        ELSE RSub(R(100),
                  RDiv(RMul(R(30), RSub(r, base_resistance)), aged_resistance))

\* The resistance factor: 100 up to the base resistance, 70 from the aged
\* resistance on, linear in between.
resistance_soh(r) ==
    LET base_resistance == R(50)
        aged_resistance == R(150)
    IN  IF RLe(r, base_resistance) THEN R(100)
        ELSE IF RLe(aged_resistance, r) THEN R(70)
        ELSE RSub(R(100),
                  RDiv(RMul(R(30), RSub(r, base_resistance)),
                       RSub(aged_resistance, base_resistance)))

\* A variant without the floor at 70.
cycle_soh_unfloored(n) == RSub(R(100), RMul(RDiv(R(n), R(2000)), R(20)))

\* The cycle factor as appended: max(70, 100 - (cycles / 2000) * 20)
cycle_soh(n) ==
    RMax(R(70), RSub(R(100), RMul(RDiv(R(n), R(2000)), R(20))))

\* The list soh_factors as estimate_soh builds it.
build_soh_factors(nominal, capacity, r, n) ==
    (IF capacity # None THEN <<capacity_soh(capacity, nominal)>> ELSE <<>>)
    \o (IF r # None THEN <<resistance_soh(r)>> ELSE <<>>)
    \o (IF n > 0 THEN <<cycle_soh(n)>> ELSE <<>>)

\* A variant that clamps every factor before averaging.
combine_soh_clamp_each(factors) ==
    IF factors = <<>> THEN R(100)
    ELSE mean([i \in 1..Len(factors) |-> clip(factors[i], R(0), R(100))])

\* The value estimate_soh returns for its list of factors.
combine_soh(factors) ==
    IF factors = <<>> THEN R(100)
    ELSE clip(mean(factors), R(0), R(100))

estimate_soh(nominal, capacity, r, n) ==
    combine_soh(build_soh_factors(nominal, capacity, r, n))

---------------------------------------------------------------------------
(* MeasurementFileProcessor                                                *)

\* A field of the CSV file is a number, or one of two other tokens: an empty
\* field, which read_csv turns into NaN, and text that is no number.
NaN        == <<"nan">>
NonNumeric == <<"abc">>

\* read_csv leaves a column that holds text as strings (dtype object): every
\* value of the column is then a string.
is_object_column(rows, field) ==
    \E i \in 1..Len(rows) : rows[i][field] = NonNumeric

\* A variant that returns the distinct values in ascending order.
RECURSIVE unique_ascending(_)
unique_ascending(s) ==
    IF s = <<>> THEN <<>>
    ELSE LET low == CHOOSE x \in { s[i] : i \in 1..Len(s) } :
                        \A i \in 1..Len(s) : x = NaN \/ (s[i] # NaN /\ RLe(x, s[i]))
         IN  <<low>> \o unique_ascending(SelectSeq(s, LAMBDA y : y # low))

\* Series.unique(): the distinct values in the order of their first
\* appearance (NaN among them, once).
RECURSIVE unique(_)
unique(s) ==
    IF s = <<>> THEN <<>>
    ELSE LET rest == unique(SubSeq(s, 1, Len(s) - 1))
             x    == s[Len(s)]
         IN  IF \E i \in 1..Len(rest) : rest[i] = x THEN rest
             ELSE Append(rest, x)

\* A variant that takes the rows of all cells.
select_cell_all_rows(rows, cell_id) == IF cell_id = NaN THEN <<>> ELSE rows

\* df[df['cell_id'] == cell_id]: the rows of the cell, in file order. NaN is
\* equal to nothing, itself included.
RECURSIVE select_cell(_, _)
select_cell(rows, cell_id) ==
    IF rows = <<>> THEN <<>>
    ELSE LET rest == select_cell(Tail(rows), cell_id)
         IN  IF cell_id # NaN /\ rows[1].cell_id = cell_id
             THEN <<rows[1]>> \o rest
             ELSE rest

\* Insert a row into rows sorted by timestamp, after the rows of the same
\* timestamp.
RECURSIVE insert_by_timestamp(_, _)
insert_by_timestamp(sorted_rows, row) ==
    IF sorted_rows = <<>> THEN <<row>>
    ELSE IF row.timestamp < sorted_rows[1].timestamp
         THEN <<row>> \o sorted_rows
         ELSE <<sorted_rows[1]>> \o insert_by_timestamp(Tail(sorted_rows), row)

\* A variant that leaves out the first row of the cell.
RECURSIVE sort_values_drop_first(_)
sort_values_drop_first(rows) ==
    IF Len(rows) <= 1 THEN <<>>
    ELSE insert_by_timestamp(
             sort_values_drop_first(SubSeq(rows, 1, Len(rows) - 1)),
             rows[Len(rows)])

\* sort_values('timestamp'). Rows of equal timestamp keep their file order
\* here; pandas' default sort does not promise that, and nothing computed
\* from the rows below depends on their order.
RECURSIVE sort_values(_)
sort_values(rows) ==
    IF rows = <<>> THEN <<>>
    ELSE insert_by_timestamp(sort_values(SubSeq(rows, 1, Len(rows) - 1)),
                             rows[Len(rows)])

column(rows, field) == [i \in 1..Len(rows) |-> rows[i][field]]

has_nan(values) == \E i \in 1..Len(values) : values[i] = NaN

\* np.mean of a numeric column: NaN when a value is NaN or the column is empty.
nan_mean(values) ==
    IF values = <<>> \/ has_nan(values) THEN NaN ELSE mean(values)

\* A variant that takes the latest value instead of the mean.
avg_voltage_latest(voltages) ==
    IF voltages = <<>> \/ has_nan(voltages) THEN NaN ELSE voltages[Len(voltages)]

\* avg_voltage = np.mean(voltages)
avg_voltage_of(voltages) == nan_mean(voltages)

\* estimate_soc for a voltage that may be NaN: the interpolation and the clip
\* both give NaN for NaN.
estimate_soc_nan(v) == IF v = NaN THEN NaN ELSE estimate_soc(v)

\* round(x, 2): the nearest multiple of 0.01, a tie going to the even one;
\* round(NaN, 2) is NaN.
round2(x) ==
    IF x = NaN THEN NaN
    ELSE LET n  == x[1] * 100
             d  == x[2]
             fl == n \div d
             r2 == 2 * (n % d)
         IN  IF r2 < d THEN Q(fl, 100)
             ELSE IF r2 > d THEN Q(fl + 1, 100)
             ELSE IF fl % 2 = 0 THEN Q(fl, 100)
             ELSE Q(fl + 1, 100)

\* What np.polyfit does with a NaN among the fitted values depends on the
\* LAPACK build behind numpy.linalg.lstsq: it raises LinAlgError (the SVD does
\* not converge), or it returns NaN coefficients.
LstsqOnNan == { "LinAlgError", "nan" }

\* calculate_internal_resistance on the columns of a cell. With a current
\* column of strings every entry differs from 0, and np.polyfit raises
\* TypeError on the strings. With numeric currents and a NaN among the fitted
\* voltages np.polyfit raises or returns NaN coefficients, and max(0, NaN)
\* is 0.
cell_resistance(voltages, currents, currents_are_strings, on_nan) ==
    IF too_few(Len(voltages)) \/ too_few(Len(currents))
    THEN [result |-> R(0), raised |-> "none"]
    ELSE IF currents_are_strings
    THEN [result |-> None, raised |-> "TypeError"]
    ELSE IF ~too_few(mask_sum(nonzero_mask(currents)))
            /\ has_nan(take_masked(voltages, nonzero_mask(currents)))
    THEN IF on_nan = "LinAlgError"
         THEN [result |-> None, raised |-> "LinAlgError"]
         ELSE [result |-> R(0), raised |-> "none"]
    ELSE calculate_internal_resistance(voltages, currents)

\* The record appended to metrics for a cell.
metric_record(nominal, cell_id, voltages, temperatures, r) ==
    [cell_id             |-> cell_id[1],
     soc_percent         |-> round2(estimate_soc_nan(avg_voltage_of(voltages))),
     soh_percent         |-> round2(estimate_soh(nominal, None, r, 0)),
     internal_resistance |-> round2(r),
     temperature_c       |-> round2(nan_mean(temperatures))]

\* The body of the loop for one cell_id, given the columns of the cell and
\* the outcome of calculate_internal_resistance: the metric record, or the
\* exception raised on the way. np.mean raises TypeError on a column of
\* strings; int(cell_id) raises ValueError for NaN, whose group is empty.
cell_outcome(nominal, rows, cell_id, voltages, temperatures, fit) ==
    IF cell_id = NaN
    THEN [metric |-> None, raised |-> "ValueError"]
    ELSE IF is_object_column(rows, "voltage_v")
    THEN [metric |-> None, raised |-> "TypeError"]
    ELSE IF fit.raised # "none"
    THEN [metric |-> None, raised |-> fit.raised]
    ELSE IF is_object_column(rows, "temperature_c")
    THEN [metric |-> None, raised |-> "TypeError"]
    ELSE [metric |-> metric_record(nominal, cell_id, voltages, temperatures,
                                   fit.result),
          raised |-> "none"]

\* The arrays taken from the sorted rows of the cell.
cell_arrays(nominal, rows, cell_id, cell_data, on_nan) ==
    cell_outcome(nominal, rows, cell_id,
                 column(cell_data, "voltage_v"),
                 column(cell_data, "temperature_c"),
                 cell_resistance(column(cell_data, "voltage_v"),
                                 column(cell_data, "current_a"),
                                 is_object_column(rows, "current_a"),
                                 on_nan))

\* cell_data = df[df['cell_id'] == cell_id].sort_values('timestamp'), and the
\* rest of the loop body.
process_cell(nominal, rows, cell_id, on_nan) ==
    cell_arrays(nominal, rows, cell_id,
                sort_values(select_cell(rows, cell_id)), on_nan)

\* The loop over df['cell_id'].unique(): the records appended so far, until a
\* cell raises; then the call raises and returns nothing.
RECURSIVE process_cells(_, _, _, _, _)
RECURSIVE append_cell(_, _, _, _, _, _)
append_cell(nominal, rows, cell_ids, done, on_nan, out) ==
    IF out.raised # "none"
    THEN [metrics |-> None, raised |-> out.raised]
    ELSE process_cells(nominal, rows, Tail(cell_ids),
                       Append(done, out.metric), on_nan)

process_cells(nominal, rows, cell_ids, done, on_nan) ==
    IF cell_ids = <<>> THEN [metrics |-> done, raised |-> "none"]
    ELSE append_cell(nominal, rows, cell_ids, done, on_nan,
                     process_cell(nominal, rows, cell_ids[1], on_nan))

\* process_measurement_file on the data rows read from the file.
process_measurement_file(nominal, rows, on_nan) ==
    process_cells(nominal, rows, unique(column(rows, "cell_id")), <<>>, on_nan)

---------------------------------------------------------------------------
(* ThresholdEvaluator: UploadHandler._check_thresholds                     *)

\* a >= b and a <= b on floats: False when a is NaN.
python_ge(a, b) == a # NaN /\ RLe(b, a)
python_le(a, b) == a # NaN /\ RLe(a, b)

\* A variant of the SoH check that a value equal to the bound fails.
soh_check_strict(metric, min_val) ==
    metric.soh_percent # NaN /\ RLt(min_val, metric.soh_percent)

\* metric_data['soh_percent'] >= min_val
soh_check(metric, min_val) == python_ge(metric.soh_percent, min_val)

\* metric_data['internal_resistance'] <= max_val
resistance_check(metric, max_val) == python_le(metric.internal_resistance, max_val)

\* metric_data['temperature_c'] <= max_val
temperature_check(metric, max_val) == python_le(metric.temperature_c, max_val)

\* A variant that also checks a 'soh' entry's max_value.
soh_checks_both_bounds(metric, dict) ==
    IF "soh" \in DOMAIN dict
    THEN (IF dict["soh"][1] # None
          THEN <<soh_check(metric, dict["soh"][1])>> ELSE <<>>)
         \o (IF dict["soh"][2] # None
             THEN <<python_le(metric.soh_percent, dict["soh"][2])>> ELSE <<>>)
    ELSE <<>>

\* if 'soh' in thresholds: the check appended for min_val, if it is set.
\* An entry is the tuple <<min_value, max_value>>.
soh_checks(metric, dict) ==
    IF "soh" \in DOMAIN dict /\ dict["soh"][1] # None
    THEN <<soh_check(metric, dict["soh"][1])>>
    ELSE <<>>

\* if 'resistance' in thresholds: the check appended for max_val, if set.
resistance_checks(metric, dict) ==
    IF "resistance" \in DOMAIN dict /\ dict["resistance"][2] # None
    THEN <<resistance_check(metric, dict["resistance"][2])>>
    ELSE <<>>

\* if 'temperature' in thresholds: the check appended for max_val, if set.
temperature_checks(metric, dict) ==
    IF "temperature" \in DOMAIN dict /\ dict["temperature"][2] # None
    THEN <<temperature_check(metric, dict["temperature"][2])>>
    ELSE <<>>

\* The list checks at the return statement.
build_checks(metric, dict) ==
    soh_checks(metric, dict) \o resistance_checks(metric, dict)
        \o temperature_checks(metric, dict)

\* all(checks) if checks else True
all_or_true(list) ==
    IF list # <<>> THEN \A i \in 1..Len(list) : list[i] ELSE TRUE

check_thresholds(metric, dict) == all_or_true(build_checks(metric, dict))

---------------------------------------------------------------------------
(* UploadHandler.process_and_store_metrics                                 *)

\* A variant of the comprehension in which the first row of a metric_type
\* stays.
RECURSIVE threshold_dict_first_wins(_)
threshold_dict_first_wins(rows) ==
    IF rows = <<>> THEN <<>>
    ELSE LET before == threshold_dict_first_wins(SubSeq(rows, 1, Len(rows) - 1))
             t      == rows[Len(rows)]
         IN  [type \in DOMAIN before \cup { t.metric_type } |->
                 IF type \in DOMAIN before THEN before[type]
                 ELSE <<t.min_value, t.max_value>>]

\* {t.metric_type: (t.min_value, t.max_value) for t in thresholds}: of the
\* rows of one metric_type the last one stays.
RECURSIVE threshold_dict_of(_)
threshold_dict_of(rows) ==
    IF rows = <<>> THEN <<>>
    ELSE LET before == threshold_dict_of(SubSeq(rows, 1, Len(rows) - 1))
             t      == rows[Len(rows)]
         IN  [type \in DOMAIN before \cup { t.metric_type } |->
                 IF type = t.metric_type THEN <<t.min_value, t.max_value>>
                 ELSE before[type]]

\* The path save_upload returns for a measurement (the time of day in the
\* file name is left out).
filepath_of(id) == <<"measurement", id>>

\* Measurement(..., raw_data_path=...): the columns the upload writes.
measurement_row(id, path) == [measurement_id |-> id, raw_data_path |-> path]

\* HealthMetric(measurement_id=..., cell_id=..., ..., passes_threshold=passes)
health_metric(measurement, metric, verdict) ==
    [measurement_id      |-> measurement,
     cell_id             |-> metric.cell_id,
     soc_percent         |-> metric.soc_percent,
     soh_percent         |-> metric.soh_percent,
     internal_resistance |-> metric.internal_resistance,
     temperature_c       |-> metric.temperature_c,
     passes_threshold    |-> verdict]

---------------------------------------------------------------------------
(* Inputs of the model.                                                    *)

\* How far below 2.75 V and above 4.20 V the voltages given to estimate_soc
\* go, in hundredths of a volt.
VoltageMargin == 10

\* The longest voltage and current arrays given to
\* calculate_internal_resistance.
MaxSamples == 3

\* Resistances given to estimate_soh: 0, 5, .. 5 * MaxResistanceSteps mOhm.
MaxResistanceSteps == 40

\* Cycle counts given to estimate_soh: 0, 500, .. 500 * MaxCycleSteps.
MaxCycleSteps == 8

VoltageInputs ==
    { Volts(cv) : cv \in (275 - VoltageMargin)..(420 + VoltageMargin) }
    \cup { Volts(200), Volts(500) }

SeqsUpTo(S, n) == UNION { [1..k -> S] : k \in 0..n }

VoltageSamples == { Volts(385), Volts(390), Volts(400) }
CurrentSamples == { R(-1), R(0), R(1), R(2), R(3) }

\* The arrays of test_internal_resistance_calculation.
TestVoltages == <<Volts(400), Volts(395), Volts(390), Volts(385)>>
TestCurrents == <<R(0), R(1), R(2), R(3)>>

ResistanceCalls ==
    (SeqsUpTo(VoltageSamples, MaxSamples) \X SeqsUpTo(CurrentSamples, MaxSamples))
    \cup { <<TestVoltages, TestCurrents>> }

NominalInputs    == { None, R(40) }
CapacityInputs   == { None, R(-10), R(0), R(25), R(50), R(60) }
ResistanceInputs == { None } \cup { R(5 * k) : k \in 0..MaxResistanceSteps }
CycleInputs      == { 500 * k : k \in 0..MaxCycleSteps }
                    \cup { -1000, 1, 2999, 3001 }

\* The most data rows of a measurement file.
MaxRows == 3

Row(t, c, v, i, temp) ==
    [timestamp |-> t, cell_id |-> c, voltage_v |-> v, current_a |-> i,
     temperature_c |-> temp]

\* Readings <<voltage_v, current_a, temperature_c>> of a well-formed row.
Readings ==
    { <<Volts(390), R(1), R(20)>>, <<Volts(374), R(3), R(25)>> }

\* Well-formed rows: two cells, two timestamps.
GoodRows ==
    { Row(t, c, m[1], m[2], m[3]) : t \in {1, 2}, c \in {R(2), R(1)}, m \in Readings }

\* Malformed rows of cell 1: text in place of a number, an empty voltage, an
\* empty cell_id.
BadRows ==
    { Row(1, R(1), NonNumeric, R(1), R(20)),
      Row(1, R(1), Volts(390), NonNumeric, R(20)),
      Row(1, R(1), Volts(390), R(1), NonNumeric),
      Row(1, R(1), NaN, R(1), R(20)),
      Row(1, NaN, Volts(390), R(1), R(20)) }

\* A well-formed row of cell 1 measured at rest: no current, and a voltage
\* above the voltages under load.
RestRows == { Row(2, R(1), Volts(400), R(0), R(25)) }

MeasurementFiles == SeqsUpTo(GoodRows \cup RestRows \cup BadRows, MaxRows)

\* The LAPACK behaviours to tell apart for a file: both when the file has an
\* empty voltage; without one np.polyfit never sees a NaN, the behaviour is
\* never looked at, and one stands for both.
LstsqOutcomes(rows) ==
    IF has_nan(column(rows, "voltage_v")) THEN LstsqOnNan ELSE { "LinAlgError" }

\* The most measurements uploaded, and the most thresholds created.
MaxMeasurements == 2
MaxThresholds == 2

\* Uploaded files: two interleaved cells, one cell, and a file with text for
\* a voltage, on which process_measurement_file raises.
UploadFiles ==
    { << Row(1, R(2), Volts(390), R(1), R(20)),
         Row(1, R(1), Volts(374), R(3), R(25)),
         Row(2, R(2), Volts(374), R(3), R(25)) >>,
      << Row(1, R(1), Volts(390), R(1), R(20)) >>,
      << Row(1, R(1), NonNumeric, R(1), R(20)) >> }

\* The HealthThreshold rows a client creates (metric_type, min_value,
\* max_value; the severity and the description are not read by the upload).
ThresholdRows ==
    { [metric_type |-> "resistance",  min_value |-> None,  max_value |-> R(50)],
      [metric_type |-> "resistance",  min_value |-> None,  max_value |-> R(100)],
      [metric_type |-> "temperature", min_value |-> None,  max_value |-> R(24)],
      [metric_type |-> "soh",         min_value |-> R(95), max_value |-> None] }

\* Metric records given to _check_thresholds: records of the processor for
\* cells of different resistance and temperature. The SoH follows from the
\* resistance; the temperature is NaN when a temperature field was empty.
MetricInputs ==
    { [cell_id             |-> 1,
       soc_percent         |-> R(50),
       soh_percent         |-> round2(estimate_soh(init_nominal_capacity(None),
                                                   None, r, 0)),
       internal_resistance |-> r,
       temperature_c       |-> t] :
      r \in { R(100), R(110), R(120) },
      t \in { R(44), R(45), R(46), NaN } }

\* HealthThreshold.metric_type values; _check_thresholds knows the first three.
MetricTypes == { "soh", "resistance", "temperature", "soc" }

\* The <<min_value, max_value>> an entry of a metric type may hold.
ThresholdEntries(type) ==
    CASE type = "soh"         -> { None, R(75), R(82) } \X { None, R(80) }
      [] type = "resistance"  -> { None, R(115) } \X { None, R(110), R(130) }
      [] type = "temperature" -> { None, R(45) } \X { None, R(45) }
      [] type = "soc"         -> { None, R(60) } \X { None, R(40) }

\* threshold_dict: a mapping from some metric types to their entry.
ThresholdDicts ==
    UNION { { dict \in [types -> UNION { ThresholdEntries(t) : t \in types }] :
                \A t \in types : dict[t] \in ThresholdEntries(t) } :
            types \in SUBSET MetricTypes }

---------------------------------------------------------------------------
(* The state machine.                                                      *)

\* No call in progress: arguments, locals and results are gone.
NoFrame ==
    /\ voltage = None /\ soc = None
    /\ voltage_data = None /\ current_data = None
    /\ coeffs = None /\ resistance = None
    /\ raised = "none" /\ warned = "none"
    /\ current_capacity_ah = None /\ internal_resistance = None
    /\ cycles = 0 /\ soh_factors = None /\ soh = None
    /\ file_rows = None /\ lstsq_on_nan = None /\ metrics = None
    /\ metric_data = None /\ thresholds = None
    /\ checks = None /\ passes = None
    /\ pc = None /\ measurement_id = None
    /\ threshold_rows = None /\ threshold_dict = None
    /\ threshold_reads = 0 /\ health_metrics = None
    /\ http_status = None

\* init_db(): the tables are created and hold no rows.
EmptyDatabase ==
    /\ db_thresholds = <<>>
    /\ db_measurements = <<>>
    /\ db_health_metrics = <<>>

\* BatteryHealthProcessor(...): __init__ stores the nominal capacity.
Init ==
    /\ ctor_arg \in NominalInputs
    /\ nominal_capacity_ah = init_nominal_capacity(ctor_arg)
    /\ op = "idle"
    /\ NoFrame
    /\ EmptyDatabase

EstimateSoc ==
    /\ op = "idle"
    /\ \E v \in VoltageInputs :
          /\ voltage' = v
          /\ soc' = estimate_soc(v)
    /\ op' = "estimate_soc"
    /\ UNCHANGED <<ctor_arg, nominal_capacity_ah, voltage_data, current_data,
                   coeffs, resistance, raised, warned, current_capacity_ah,
                   internal_resistance, cycles, soh_factors, soh>>
    /\ UNCHANGED fileVars
    /\ UNCHANGED thresholdVars
    /\ UNCHANGED uploadVars
    /\ UNCHANGED dbVars

CalculateInternalResistance ==
    /\ op = "idle"
    /\ \E call \in ResistanceCalls :
          LET out == calculate_internal_resistance(call[1], call[2])
          IN  /\ voltage_data' = call[1]
              /\ current_data' = call[2]
              /\ coeffs' = out.coeffs
              /\ resistance' = out.result
              /\ raised' = out.raised
              /\ warned' = out.warned
    /\ op' = "calculate_internal_resistance"
    /\ UNCHANGED <<ctor_arg, nominal_capacity_ah, voltage, soc,
                   current_capacity_ah, internal_resistance, cycles,
                   soh_factors, soh>>
    /\ UNCHANGED fileVars
    /\ UNCHANGED thresholdVars
    /\ UNCHANGED uploadVars
    /\ UNCHANGED dbVars

\* A variant of estimate_soh that keeps the capacity it is given as the
\* processor's nominal capacity.
EstimateSoh_keeping_capacity ==
    /\ op = "idle"
    /\ \E capacity \in CapacityInputs, r \in ResistanceInputs, n \in CycleInputs :
          /\ current_capacity_ah' = capacity
          /\ internal_resistance' = r
          /\ cycles' = n
          /\ soh_factors' = build_soh_factors(nominal_capacity_ah, capacity, r, n)
          /\ soh' = estimate_soh(nominal_capacity_ah, capacity, r, n)
          /\ nominal_capacity_ah' =
                 IF capacity = None THEN nominal_capacity_ah ELSE capacity
    /\ op' = "estimate_soh"
    /\ UNCHANGED <<ctor_arg, voltage, soc, voltage_data,
                   current_data, coeffs, resistance, raised, warned>>
    /\ UNCHANGED fileVars
    /\ UNCHANGED thresholdVars
    /\ UNCHANGED uploadVars
    /\ UNCHANGED dbVars

EstimateSoh ==
    /\ op = "idle"
    /\ \E capacity \in CapacityInputs, r \in ResistanceInputs, n \in CycleInputs :
          /\ current_capacity_ah' = capacity
          /\ internal_resistance' = r
          /\ cycles' = n
          /\ soh_factors' = build_soh_factors(nominal_capacity_ah, capacity, r, n)
          /\ soh' = estimate_soh(nominal_capacity_ah, capacity, r, n)
    /\ op' = "estimate_soh"
    /\ UNCHANGED <<ctor_arg, nominal_capacity_ah, voltage, soc, voltage_data,
                   current_data, coeffs, resistance, raised, warned>>
    /\ UNCHANGED fileVars
    /\ UNCHANGED thresholdVars
    /\ UNCHANGED uploadVars
    /\ UNCHANGED dbVars

\* The call returns (or its exception propagates) and its frame is dropped.
Return ==
    /\ op # "idle"
    /\ op # "process_and_store_metrics"
    /\ op = "create_measurement" => pc = "response"
    /\ op' = "idle"
    /\ voltage' = None /\ soc' = None
    /\ voltage_data' = None /\ current_data' = None
    /\ coeffs' = None /\ resistance' = None
    /\ raised' = "none" /\ warned' = "none"
    /\ current_capacity_ah' = None /\ internal_resistance' = None
    /\ cycles' = 0 /\ soh_factors' = None /\ soh' = None
    /\ file_rows' = None /\ lstsq_on_nan' = None /\ metrics' = None
    /\ metric_data' = None /\ thresholds' = None
    /\ checks' = None /\ passes' = None
    /\ pc' = None /\ measurement_id' = None
    /\ threshold_rows' = None /\ threshold_dict' = None
    /\ threshold_reads' = 0 /\ health_metrics' = None
    /\ http_status' = None
    /\ UNCHANGED dbVars
    /\ UNCHANGED <<ctor_arg, nominal_capacity_ah>>

\* processor.process_measurement_file(filepath) on a file of the model.
ProcessMeasurementFile ==
    /\ op = "idle"
    /\ \E rows \in MeasurementFiles :
      \E on_nan \in LstsqOutcomes(rows) :
          \E out \in {process_measurement_file(nominal_capacity_ah, rows, on_nan)} :
              /\ file_rows' = rows
              /\ lstsq_on_nan' = on_nan
              /\ metrics' = out.metrics
              /\ raised' = out.raised
    /\ op' = "process_measurement_file"
    /\ UNCHANGED <<ctor_arg, nominal_capacity_ah, voltage, soc, voltage_data,
                   current_data, coeffs, resistance, warned,
                   current_capacity_ah, internal_resistance, cycles,
                   soh_factors, soh>>
    /\ UNCHANGED thresholdVars
    /\ UNCHANGED uploadVars
    /\ UNCHANGED dbVars

\* self._check_thresholds(metric_data, threshold_dict)
CheckThresholds ==
    /\ op = "idle"
    /\ \E metric \in MetricInputs, dict \in ThresholdDicts :
          /\ metric_data' = metric
          /\ thresholds' = dict
          /\ checks' = build_checks(metric, dict)
          /\ passes' = check_thresholds(metric, dict)
    /\ op' = "_check_thresholds"
    /\ UNCHANGED <<ctor_arg, nominal_capacity_ah, voltage, soc, voltage_data,
                   current_data, coeffs, resistance, raised, warned,
                   current_capacity_ah, internal_resistance, cycles,
                   soh_factors, soh>>
    /\ UNCHANGED fileVars
    /\ UNCHANGED uploadVars
    /\ UNCHANGED dbVars

\* The variables of the processor object and of its methods' frames, apart
\* from those of process_measurement_file.
processorVars == <<ctor_arg, nominal_capacity_ah>>

methodVars == <<voltage, soc, voltage_data, current_data, coeffs, resistance,
                warned, current_capacity_ah, internal_resistance, cycles,
                soh_factors, soh>>

\* POST /health_thresholds: the row is added and committed.
CreateHealthThreshold ==
    /\ Len(db_thresholds) < MaxThresholds
    /\ \E row \in ThresholdRows : db_thresholds' = Append(db_thresholds, row)
    /\ UNCHANGED <<db_measurements, db_health_metrics, op, raised>>
    /\ UNCHANGED <<processorVars, methodVars, fileVars, thresholdVars, uploadVars>>

\* POST /measurements, first part: the Measurement row is added with an
\* empty raw_data_path, committed and refreshed.
CreateMeasurement ==
    /\ op = "idle"
    /\ Len(db_measurements) < MaxMeasurements
    /\ db_measurements' =
           Append(db_measurements,
                  measurement_row(Len(db_measurements) + 1, ""))
    /\ measurement_id' = Len(db_measurements) + 1
    /\ \E rows \in UploadFiles : file_rows' = rows
    /\ op' = "create_measurement"
    /\ pc' = "save_upload"
    /\ UNCHANGED <<raised, lstsq_on_nan, metrics>>
    /\ UNCHANGED <<threshold_rows, threshold_dict, threshold_reads,
                   health_metrics, http_status>>
    /\ UNCHANGED <<db_thresholds, db_health_metrics>>
    /\ UNCHANGED <<processorVars, methodVars, thresholdVars>>

\* The file is saved, measurement.raw_data_path is set to its path, and the
\* change is committed.
SaveUpload ==
    /\ op = "create_measurement"
    /\ pc = "save_upload"
    /\ db_measurements' =
           [db_measurements EXCEPT ![measurement_id] =
               measurement_row(measurement_id, filepath_of(measurement_id))]
    /\ pc' = "process_and_store_metrics"
    /\ UNCHANGED <<op, raised, measurement_id, threshold_rows, threshold_dict,
                   threshold_reads, health_metrics, http_status>>
    /\ UNCHANGED <<db_thresholds, db_health_metrics>>
    /\ UNCHANGED <<processorVars, methodVars, fileVars, thresholdVars>>

\* handler.process_and_store_metrics(filepath, measurement_id) is called and
\* processes the file. An exception of the processor leaves the call.
ProcessFile ==
    /\ op = "create_measurement"
    /\ pc = "process_and_store_metrics"
    /\ \E on_nan \in LstsqOutcomes(file_rows) :
          \E out \in {process_measurement_file(nominal_capacity_ah, file_rows,
                                               on_nan)} :
              /\ lstsq_on_nan' = on_nan
              /\ metrics' = out.metrics
              /\ raised' = out.raised
              /\ pc' = IF out.raised = "none" THEN "query_thresholds"
                       ELSE "process_measurement_file"
    /\ op' = "process_and_store_metrics"
    /\ UNCHANGED <<file_rows, measurement_id, threshold_rows, threshold_dict,
                   threshold_reads, health_metrics, http_status>>
    /\ UNCHANGED <<processorVars, methodVars, thresholdVars, dbVars>>

\* with get_db() as db: thresholds = db.query(HealthThreshold).all(), and
\* the threshold_dict built from them; health_metrics = [].
QueryThresholds ==
    /\ op = "process_and_store_metrics"
    /\ pc = "query_thresholds"
    /\ raised = "none"
    /\ threshold_rows' = db_thresholds
    /\ threshold_dict' = threshold_dict_of(db_thresholds)
    /\ threshold_reads' = threshold_reads + 1
    /\ health_metrics' = <<>>
    /\ pc' = "for_metric_data"
    /\ UNCHANGED <<op, raised, measurement_id, http_status>>
    /\ UNCHANGED <<processorVars, methodVars, fileVars, thresholdVars, dbVars>>

\* The query raises (the database cannot be reached, the statement fails):
\* get_db rolls back and the exception leaves the call.
QueryThresholdsFails ==
    /\ op = "process_and_store_metrics"
    /\ pc = "query_thresholds"
    /\ raised = "none"
    /\ raised' = "SQLAlchemyError"
    /\ UNCHANGED <<op, pc, measurement_id, threshold_rows, threshold_dict,
                   threshold_reads, health_metrics, http_status>>
    /\ UNCHANGED <<processorVars, methodVars, fileVars, thresholdVars, dbVars>>

\* A variant of the loop body that queries the thresholds again for each
\* metric.
EvaluateMetric_querying_again ==
    /\ op = "process_and_store_metrics"
    /\ pc = "for_metric_data"
    /\ raised = "none"
    /\ Len(health_metrics) < Len(metrics)
    /\ \E metric \in { metrics[Len(health_metrics) + 1] },
          dict \in { threshold_dict_of(db_thresholds) } :
          /\ metric_data' = metric
          /\ thresholds' = dict
          /\ threshold_dict' = dict
          /\ threshold_rows' = db_thresholds
          /\ checks' = build_checks(metric, dict)
          /\ passes' = check_thresholds(metric, dict)
          /\ health_metrics' =
                 Append(health_metrics,
                        health_metric(measurement_id, metric,
                                      check_thresholds(metric, dict)))
    /\ threshold_reads' = threshold_reads + 1
    /\ UNCHANGED <<op, raised, pc, measurement_id, http_status>>
    /\ UNCHANGED <<processorVars, methodVars, fileVars, dbVars>>

\* One pass of 'for metric_data in metrics_data': the verdict of
\* _check_thresholds(metric_data, threshold_dict) and the HealthMetric
\* appended to health_metrics.
EvaluateMetric ==
    /\ op = "process_and_store_metrics"
    /\ pc = "for_metric_data"
    /\ raised = "none"
    /\ Len(health_metrics) < Len(metrics)
    /\ \E metric \in { metrics[Len(health_metrics) + 1] } :
          /\ metric_data' = metric
          /\ thresholds' = threshold_dict
          /\ checks' = build_checks(metric, threshold_dict)
          /\ passes' = check_thresholds(metric, threshold_dict)
          /\ health_metrics' =
                 Append(health_metrics,
                        health_metric(measurement_id, metric,
                                      check_thresholds(metric, threshold_dict)))
    /\ UNCHANGED <<op, raised, pc, measurement_id, threshold_rows,
                   threshold_dict, threshold_reads, http_status>>
    /\ UNCHANGED <<processorVars, methodVars, fileVars, dbVars>>

\* A variant of the commit that stores the batch without its last metric.
StoreMetrics_but_last ==
    /\ op = "process_and_store_metrics"
    /\ pc = "for_metric_data"
    /\ raised = "none"
    /\ Len(health_metrics) = Len(metrics)
    /\ db_health_metrics' =
           db_health_metrics
               \o SubSeq(health_metrics, 1, Len(health_metrics) - 1)
    /\ pc' = "refresh"
    /\ UNCHANGED <<op, raised, measurement_id, threshold_rows, threshold_dict,
                   threshold_reads, health_metrics, http_status,
                   db_thresholds, db_measurements>>
    /\ UNCHANGED <<processorVars, methodVars, fileVars, thresholdVars>>

\* with get_db() as db: db.add_all(health_metrics); db.commit(), after the
\* last metric of the loop: the rows of the batch are stored together.
StoreMetrics ==
    /\ op = "process_and_store_metrics"
    /\ pc = "for_metric_data"
    /\ raised = "none"
    /\ Len(health_metrics) = Len(metrics)
    /\ db_health_metrics' = db_health_metrics \o health_metrics
    /\ pc' = "refresh"
    /\ UNCHANGED <<op, raised, measurement_id, threshold_rows, threshold_dict,
                   threshold_reads, health_metrics, http_status,
                   db_thresholds, db_measurements>>
    /\ UNCHANGED <<processorVars, methodVars, fileVars, thresholdVars>>

\* db.commit() raises (a cell_id that is no row of cells, the database
\* cannot be reached): get_db rolls back, no row of the batch is stored, and
\* the exception leaves the call.
CommitFails ==
    /\ op = "process_and_store_metrics"
    /\ pc = "for_metric_data"
    /\ raised = "none"
    /\ Len(health_metrics) = Len(metrics)
    /\ raised' = "SQLAlchemyError"
    /\ pc' = "commit"
    /\ UNCHANGED <<op, measurement_id, threshold_rows, threshold_dict,
                   threshold_reads, health_metrics, http_status>>
    /\ UNCHANGED <<processorVars, methodVars, fileVars, thresholdVars, dbVars>>

\* for metric in health_metrics: db.refresh(metric), and the exit of the
\* with block; the call returns health_metrics.
RefreshMetrics ==
    /\ op = "process_and_store_metrics"
    /\ pc = "refresh"
    /\ raised = "none"
    /\ pc' = "return"
    /\ UNCHANGED <<op, raised, measurement_id, threshold_rows, threshold_dict,
                   threshold_reads, health_metrics, http_status>>
    /\ UNCHANGED <<processorVars, methodVars, fileVars, thresholdVars, dbVars>>

\* A db.refresh(metric) raises (its SELECT fails, the database cannot be
\* reached any more): get_db rolls back, which undoes nothing of the commit
\* made before, and the exception leaves the call.
RefreshFails ==
    /\ op = "process_and_store_metrics"
    /\ pc = "refresh"
    /\ raised = "none"
    /\ Len(health_metrics) > 0
    /\ raised' = "SQLAlchemyError"
    /\ UNCHANGED <<op, pc, measurement_id, threshold_rows, threshold_dict,
                   threshold_reads, health_metrics, http_status>>
    /\ UNCHANGED <<processorVars, methodVars, fileVars, thresholdVars, dbVars>>

\* POST /measurements, last part: the response 201 with the measurement
\* after the call returned, and 'except Exception as e: raise
\* HTTPException(status_code=500, ...)' after it raised.
Respond ==
    /\ op = "process_and_store_metrics"
    /\ pc = "return" \/ raised # "none"
    /\ http_status' = IF raised = "none" THEN 201 ELSE 500
    /\ op' = "create_measurement"
    /\ pc' = "response"
    /\ UNCHANGED <<raised, measurement_id, threshold_rows, threshold_dict,
                   threshold_reads, health_metrics>>
    /\ UNCHANGED <<processorVars, methodVars, fileVars, thresholdVars, dbVars>>

Next ==
    \/ EstimateSoc
    \/ CalculateInternalResistance
    \/ EstimateSoh
    \/ Return

Spec == Init /\ [][Next]_vars

\* UploadHandler.__init__: the processor is built with the default nominal
\* capacity.
InitDefault ==
    /\ ctor_arg = None
    /\ nominal_capacity_ah = init_nominal_capacity(ctor_arg)
    /\ op = "idle"
    /\ NoFrame
    /\ EmptyDatabase

\* The processor of the upload handler processing measurement files.
ProcessNext ==
    \/ ProcessMeasurementFile
    \/ Return

ProcessSpec == InitDefault /\ [][ProcessNext]_vars

\* The processor of the upload handler, its four methods called in any order.
ProcessorNext ==
    \/ EstimateSoc
    \/ CalculateInternalResistance
    \/ EstimateSoh
    \/ ProcessMeasurementFile
    \/ Return

ProcessorSpec == InitDefault /\ [][ProcessorNext]_vars

\* Uploads of measurement files while clients create thresholds.
UploadNext ==
    \/ CreateHealthThreshold
    \/ CreateMeasurement
    \/ SaveUpload
    \/ ProcessFile
    \/ QueryThresholds
    \/ QueryThresholdsFails
    \/ EvaluateMetric
    \/ StoreMetrics
    \/ CommitFails
    \/ RefreshMetrics
    \/ RefreshFails
    \/ Respond
    \/ Return

UploadSpec == InitDefault /\ [][UploadNext]_vars

\* The upload handler judging metric records against thresholds.
ThresholdNext ==
    \/ CheckThresholds
    \/ Return

ThresholdSpec == InitDefault /\ [][ThresholdNext]_vars

---------------------------------------------------------------------------
(* Properties of estimate_soc.                                             *)

\* The voltage lies inside the calibration table's range [2.75, 4.2].
InTableRange(v) == RLe(Volts(275), v) /\ RLe(v, Volts(420))

\* C1: for every voltage in [2.75, 4.2] estimate_soc lies in [0, 100], and it
\* is non-decreasing in voltage over that range: no lower voltage of the
\* range has a higher state of charge than the one returned.
C1_SocBoundedMonotone ==
    (op = "estimate_soc" /\ InTableRange(voltage)) =>
        /\ RLe(R(0), soc) /\ RLe(soc, R(100))
        /\ \A w \in VoltageInputs :
              (InTableRange(w) /\ RLe(w, voltage)) => RLe(estimate_soc(w), soc)

\* estimate_soc(3.62) returned 34: strictly inside the range, above the
\* values of the lower voltages.
C1_Witness ==
    /\ op = "estimate_soc"
    /\ voltage = Volts(362)
    /\ soc = R(34)
    /\ RLt(estimate_soc(Volts(361)), soc)

\* The calibration points as the specification lists them: hundredths of a
\* volt and percent.
ClaimedCurve ==
    << <<275, 0>>,  <<300, 5>>,  <<330, 10>>, <<350, 20>>, <<360, 30>>,
       <<365, 40>>, <<370, 50>>, <<375, 60>>, <<380, 70>>, <<390, 80>>,
       <<400, 90>>, <<410, 95>>, <<420, 100>> >>

\* The point of the line through calibration points i and i+1 at voltage v.
OnClaimedSegment(i, v, y) ==
    LET x0 == Volts(ClaimedCurve[i][1])
        x1 == Volts(ClaimedCurve[i + 1][1])
        y0 == R(ClaimedCurve[i][2])
        y1 == R(ClaimedCurve[i + 1][2])
    IN  RMul(RSub(y, y0), RSub(x1, x0)) = RMul(RSub(y1, y0), RSub(v, x0))

\* C2: inside [2.75, 4.2] estimate_soc is the linear interpolation between
\* the two calibration points that bracket the voltage, and at a calibration
\* voltage it is exactly the table value.
C2_SocInterpolatesTable ==
    op = "estimate_soc" =>
        /\ \A i \in 1..(Len(ClaimedCurve) - 1) :
              ( /\ RLe(Volts(ClaimedCurve[i][1]), voltage)
                /\ RLe(voltage, Volts(ClaimedCurve[i + 1][1])) )
              => OnClaimedSegment(i, voltage, soc)
        /\ \A i \in 1..Len(ClaimedCurve) :
              voltage = Volts(ClaimedCurve[i][1]) => soc = R(ClaimedCurve[i][2])

\* estimate_soc(3.7) returned 50.
C2_Witness ==
    op = "estimate_soc" /\ voltage = Volts(370) /\ soc = R(50)

\* C3: below 2.75 V the result is the first segment's line (slope 5 per
\* 0.25 V from 0 at 2.75 V) clamped to [0, 100], which is 0; above 4.2 V it
\* is the last segment's line (slope 5 per 0.1 V from 100 at 4.2 V) clamped,
\* which is 100; no exception is raised.
C3_SocClampedOutside ==
    op = "estimate_soc" =>
        /\ raised = "none"
        /\ RLt(voltage, Volts(275)) =>
              /\ soc = clip(RMul(R(20), RSub(voltage, Volts(275))), R(0), R(100))
              /\ soc = R(0)
        /\ RLt(Volts(420), voltage) =>
              /\ soc = clip(RAdd(R(100), RMul(R(50), RSub(voltage, Volts(420)))),
                            R(0), R(100))
              /\ soc = R(100)

\* estimate_soc(2.0) returned 0.
C3_Witness ==
    op = "estimate_soc" /\ voltage = Volts(200) /\ soc = R(0)

---------------------------------------------------------------------------
(* Properties of calculate_internal_resistance.                            *)

\* The positions of the samples whose current is not 0.
NonzeroSamples == { i \in 1..Len(current_data) : current_data[i] # R(0) }

\* C4: with fewer than 2 entries in either array, or fewer than 2 samples of
\* nonzero current, calculate_internal_resistance returns 0 and does not raise.
C4_ResistanceZeroFallback ==
    ( /\ op = "calculate_internal_resistance"
      /\ \/ Len(voltage_data) < 2
         \/ Len(current_data) < 2
         \/ Cardinality(NonzeroSamples) < 2 )
    => (resistance = R(0) /\ raised = "none")

\* currents = [0, 0, 0] with three voltages returned 0.
C4_Witness ==
    /\ op = "calculate_internal_resistance"
    /\ current_data = <<R(0), R(0), R(0)>>
    /\ Len(voltage_data) = 3
    /\ resistance = R(0)
    /\ raised = "none"

\* The residual voltage_data[i] - (intercept + slope * current_data[i]) of
\* every sample of nonzero current, and 0 for the samples of zero current.
Residuals(slope, intercept) ==
    [i \in 1..Len(current_data) |->
        IF current_data[i] = R(0) THEN R(0)
        ELSE RSub(voltage_data[i],
                  RAdd(intercept, RMul(slope, current_data[i])))]

\* The line minimises the sum of squared residuals over the samples of
\* nonzero current: the residuals sum to 0 and are orthogonal to the currents
\* (the normal equations of ordinary least squares).
IsLeastSquaresLine(slope, intercept) ==
    /\ RSum(Residuals(slope, intercept)) = R(0)
    /\ RDot(Residuals(slope, intercept), current_data) = R(0)

\* C5: for arrays of equal length with at least 2 samples of nonzero current
\* the result is max(0, -1000 * slope), slope being that of the least-squares
\* line of voltage on current over the samples of nonzero current alone; for
\* voltages [4.0, 3.95, 3.9, 3.85] and currents [0, 1, 2, 3] it lies strictly
\* between 0 and 200.
C5_ResistanceIsRegressionSlope ==
    ( /\ op = "calculate_internal_resistance"
      /\ Len(voltage_data) = Len(current_data)
      /\ Cardinality(NonzeroSamples) >= 2 )
    => /\ raised = "none"
       /\ coeffs # None
       /\ IsLeastSquaresLine(coeffs[1], coeffs[2])
       /\ resistance = RMax(R(0), RMul(R(-1000), coeffs[1]))
       /\ (voltage_data = TestVoltages /\ current_data = TestCurrents)
             => (RLt(R(0), resistance) /\ RLt(resistance, R(200)))

\* The arrays of the test gave 50 mOhm.
C5_Witness ==
    /\ op = "calculate_internal_resistance"
    /\ voltage_data = TestVoltages
    /\ current_data = TestCurrents
    /\ resistance = R(50)

\* C6: for arrays of equal length the result is never negative, and a fitted
\* line whose voltage rises with current (a negative resistance) gives 0.
C6_ResistanceNeverNegative ==
    ( /\ op = "calculate_internal_resistance"
      /\ Len(voltage_data) = Len(current_data) )
    => /\ resistance # None
       /\ RLe(R(0), resistance)
       /\ (coeffs # None /\ RLt(R(0), coeffs[1])) => resistance = R(0)

\* A window whose voltage rises with current: the fitted slope is positive
\* and 0 is returned.
C6_Witness ==
    /\ op = "calculate_internal_resistance"
    /\ voltage_data = <<Volts(385), Volts(390), Volts(400)>>
    /\ current_data = <<R(1), R(2), R(3)>>
    /\ coeffs # None
    /\ RLt(R(0), coeffs[1])
    /\ resistance = R(0)

\* The samples of nonzero current are at least 2 and all carry the same current.
ZeroVarianceWindow ==
    /\ Len(voltage_data) = Len(current_data)
    /\ Cardinality(NonzeroSamples) >= 2
    /\ \A i, j \in NonzeroSamples : current_data[i] = current_data[j]

---------------------------------------------------------------------------
(* Properties of estimate_soh.                                             *)

\* Which factors the call supplies.
CapacityGiven   == current_capacity_ah # None
ResistanceGiven == internal_resistance # None
CyclesGiven     == cycles > 0

\* The factors as the specification states them.
ClaimedResistanceFactor(r) ==
    IF RLe(r, R(50)) THEN R(100)
    ELSE IF RLe(R(150), r) THEN R(70)
    ELSE RSub(R(100), RDiv(RMul(R(30), RSub(r, R(50))), R(100)))

ClaimedCycleFactor(n) == RMax(R(70), RSub(R(100), Q(n * 20, 2000)))

ClaimedCapacityFactor(capacity) ==
    RDiv(RMul(capacity, R(100)), nominal_capacity_ah)

\* C8: with only internal_resistance supplied estimate_soh is 100 up to
\* 50 mOhm, 70 from 150 mOhm on and 100 - 30 * (r - 50) / 100 in between (85
\* at 100); it is non-increasing in the resistance, at least 95 at 50 and
\* below 95 at 120.
C8_SohResistanceMap ==
    ( /\ op = "estimate_soh"
      /\ ResistanceGiven /\ ~CapacityGiven /\ ~CyclesGiven )
    => /\ soh = ClaimedResistanceFactor(internal_resistance)
       /\ internal_resistance = R(100) => soh = R(85)
       /\ internal_resistance = R(50)  => RLe(R(95), soh)
       /\ internal_resistance = R(120) => RLt(soh, R(95))
       /\ \A r \in ResistanceInputs \ {None} :
             RLe(internal_resistance, r)
             => RLe(estimate_soh(nominal_capacity_ah, None, r, 0), soh)

\* estimate_soh(internal_resistance=100) returned 85.
C8_Witness ==
    /\ op = "estimate_soh"
    /\ ~CapacityGiven /\ cycles = 0
    /\ internal_resistance = R(100)
    /\ soh = R(85)

\* The sum and the number of the factors the call supplies.
ClaimedFactorSum ==
    RAdd(IF CapacityGiven THEN ClaimedCapacityFactor(current_capacity_ah) ELSE R(0),
         RAdd(IF ResistanceGiven THEN ClaimedResistanceFactor(internal_resistance)
                                 ELSE R(0),
              IF CyclesGiven THEN ClaimedCycleFactor(cycles) ELSE R(0)))

ClaimedFactorCount ==
    (IF CapacityGiven THEN 1 ELSE 0) + (IF ResistanceGiven THEN 1 ELSE 0)
    + (IF CyclesGiven THEN 1 ELSE 0)

\* C9: estimate_soh is the unweighted mean of exactly the factors supplied,
\* clamped to [0, 100] after averaging, and exactly 100 when none is supplied.
C9_SohMeanOfSuppliedFactors ==
    op = "estimate_soh" =>
        /\ Len(soh_factors) = ClaimedFactorCount
        /\ ClaimedFactorCount = 0 => soh = R(100)
        /\ ClaimedFactorCount > 0 =>
              soh = clip(RDiv(ClaimedFactorSum, R(ClaimedFactorCount)),
                         R(0), R(100))

\* With the default nominal capacity, a capacity of 60 Ah (factor 120) and a
\* resistance of 150 mOhm (factor 70) average to 95: the capacity factor
\* entered the mean unclamped.
C9_Witness ==
    /\ op = "estimate_soh"
    /\ nominal_capacity_ah = R(50)
    /\ current_capacity_ah = R(60)
    /\ internal_resistance = R(150)
    /\ cycles = 0
    /\ soh = R(95)

\* C10: with only cycles > 0 supplied the result is max(70, 100 - cycles /
\* 2000 * 20), never below 70 and equal to 70 from 3000 cycles on; with only
\* the capacity supplied it is current_capacity_ah / nominal_capacity_ah * 100
\* (clamped), the nominal capacity being the one given at construction, 50 by
\* default, in every state.
C10_CycleFloorAndCapacityFactor ==
    /\ nominal_capacity_ah = (IF ctor_arg = None THEN R(50) ELSE ctor_arg)
    /\ ( /\ op = "estimate_soh"
         /\ CyclesGiven /\ ~CapacityGiven /\ ~ResistanceGiven )
       => /\ RLe(R(70), soh)
          /\ soh = ClaimedCycleFactor(cycles)
          /\ cycles >= 3000 => soh = R(70)
    /\ ( /\ op = "estimate_soh"
         /\ CapacityGiven /\ ~ResistanceGiven /\ ~CyclesGiven )
       => /\ soh_factors = <<ClaimedCapacityFactor(current_capacity_ah)>>
          /\ soh = clip(ClaimedCapacityFactor(current_capacity_ah), R(0), R(100))

\* estimate_soh(cycles=4000) returned 70, above the unfloored 60.
C10_Witness ==
    /\ op = "estimate_soh"
    /\ ~CapacityGiven /\ ~ResistanceGiven
    /\ cycles = 4000
    /\ soh = R(70)

---------------------------------------------------------------------------
(* Properties of process_measurement_file.                                 *)

\* A call of process_measurement_file that returned its metrics.
Processed == op = "process_measurement_file" /\ raised = "none"

\* The cell_id values of the data rows, as the integers the records carry.
CellIdsOf(rows) == { rows[i].cell_id[1] : i \in 1..Len(rows) }

\* The position of the first row of the cell.
FirstSeen(rows, id) ==
    CHOOSE i \in 1..Len(rows) :
        /\ rows[i].cell_id[1] = id
        /\ \A j \in 1..(i - 1) : rows[j].cell_id[1] # id

\* C11: process_measurement_file returns exactly one record per distinct
\* cell_id of the input, and the records are in the order in which the
\* cell_ids first appear in the rows, whatever their numeric order.
C11_OneRecordPerCellInFirstSeenOrder ==
    Processed =>
        /\ Len(metrics) = Cardinality(CellIdsOf(file_rows))
        /\ \A id \in CellIdsOf(file_rows) :
              \E k \in 1..Len(metrics) : metrics[k].cell_id = id
        /\ \A j, k \in 1..Len(metrics) :
              j < k => /\ metrics[j].cell_id \in CellIdsOf(file_rows)
                       /\ metrics[k].cell_id \in CellIdsOf(file_rows)
                       /\ FirstSeen(file_rows, metrics[j].cell_id)
                              < FirstSeen(file_rows, metrics[k].cell_id)

\* Rows of cell 2 and cell 1 interleaved, cell 2 first: two records, cell 2's
\* first.
C11_Witness ==
    /\ Processed
    /\ Len(file_rows) = 3
    /\ \A i \in 1..3 : file_rows[i] \in GoodRows
    /\ file_rows[1].cell_id = R(2)
    /\ file_rows[2].cell_id = R(1)
    /\ file_rows[3].cell_id = R(2)
    /\ Len(metrics) = 2
    /\ metrics[1].cell_id = 2
    /\ metrics[2].cell_id = 1

\* A number between 0 and 100; NaN is not.
InPercentRange(x) == x # NaN /\ RLe(R(0), x) /\ RLe(x, R(100))

\* C12: every record of a file that is processed without error has
\* soc_percent in [0, 100], soh_percent in [0, 100] and
\* internal_resistance >= 0.
C12_MetricsInRange ==
    Processed =>
        \A k \in 1..Len(metrics) :
            /\ InPercentRange(metrics[k].soc_percent)
            /\ InPercentRange(metrics[k].soh_percent)
            /\ metrics[k].internal_resistance # NaN
            /\ RLe(R(0), metrics[k].internal_resistance)

\* A file whose one row has an empty voltage is processed without error, and
\* the soc_percent of its record is NaN.
C12_Witness ==
    /\ Processed
    /\ Len(file_rows) = 1
    /\ file_rows[1].voltage_v = NaN
    /\ Len(metrics) = 1
    /\ metrics[1].soc_percent = NaN

\* Text in place of a number, or no cell_id.
Malformed(row) ==
    \/ row.voltage_v = NonNumeric
    \/ row.current_a = NonNumeric
    \/ row.temperature_c = NonNumeric
    \/ row.cell_id = NaN

\* C13: when a row of the file is malformed (text for voltage, current or
\* temperature, or no cell_id) the call raises and returns no records.
C13_MalformedRowFailsCall ==
    (/\ op = "process_measurement_file"
     /\ \E i \in 1..Len(file_rows) : Malformed(file_rows[i]))
    => (raised # "none" /\ metrics = None)

\* A file whose one row has text for the current returns a record.
C13_Witness ==
    /\ Processed
    /\ Len(file_rows) = 1
    /\ file_rows[1].current_a = NonNumeric
    /\ Len(metrics) = 1
    /\ metrics[1].internal_resistance = R(0)

\* Every field of every row is a number.
IsNumber(x) == x # NaN /\ x # NonNumeric

WellFormed(rows) ==
    \A i \in 1..Len(rows) :
        /\ IsNumber(rows[i].cell_id)
        /\ IsNumber(rows[i].voltage_v)
        /\ IsNumber(rows[i].current_a)
        /\ IsNumber(rows[i].temperature_c)

\* The rows of a cell, in the order of the file.
CellSeries(rows, id) == SelectSeq(rows, LAMBDA row : row.cell_id[1] = id)

SeriesOf(cell, field) == [i \in 1..Len(cell) |-> cell[i][field]]

\* The resistance of the whole voltage/current series of a cell.
SeriesResistance(cell) ==
    calculate_internal_resistance(SeriesOf(cell, "voltage_v"),
                                  SeriesOf(cell, "current_a")).result

\* The resistance of the cell's averaged sample: a single sample, too few for
\* a regression.
AveragedResistance(cell) ==
    calculate_internal_resistance(<<mean(SeriesOf(cell, "voltage_v"))>>,
                                  <<mean(SeriesOf(cell, "current_a"))>>).result

\* C17: the record of a cell holds estimate_soc of the mean of the cell's
\* voltages, the mean of its temperatures, the resistance of its whole
\* voltage/current series and estimate_soh of that resistance alone (no
\* capacity, no cycles), each rounded to 2 decimal places. Stated for files
\* whose fields are all numbers.
C17_RecordFromMeansAndFullSeries ==
    (Processed /\ WellFormed(file_rows)) =>
        \A k \in 1..Len(metrics) :
            \E cell \in { CellSeries(file_rows, metrics[k].cell_id) } :
                /\ cell # <<>>
                /\ metrics[k].soc_percent
                      = round2(estimate_soc(mean(SeriesOf(cell, "voltage_v"))))
                /\ metrics[k].temperature_c
                      = round2(mean(SeriesOf(cell, "temperature_c")))
                /\ metrics[k].internal_resistance
                      = round2(SeriesResistance(cell))
                /\ metrics[k].soh_percent
                      = round2(estimate_soh(nominal_capacity_ah, None,
                                            SeriesResistance(cell), 0))

\* A cell of three rows: the resistance of the series is 80 mOhm (from the
\* average it would be 0), the mean temperature 21.666.. is reported as 21.67
\* and the SoH 91 is that of the resistance alone.
C17_Witness ==
    /\ Processed /\ WellFormed(file_rows)
    /\ Len(file_rows) = 3
    /\ Len(metrics) = 1
    /\ metrics[1].internal_resistance = R(80)
    /\ AveragedResistance(file_rows) = R(0)
    /\ metrics[1].temperature_c = Q(2167, 100)
    /\ metrics[1].soh_percent = R(91)
    /\ metrics[1].soc_percent
          # round2(estimate_soc(file_rows[3].voltage_v))

\* The file with rows i and i + 1 exchanged. Every permutation of the rows is
\* a sequence of such exchanges.
SwapRows(rows, i) ==
    [j \in 1..Len(rows) |->
        IF j = i THEN rows[i + 1] ELSE IF j = i + 1 THEN rows[i] ELSE rows[j]]

RecordsOf(list) == { list[k] : k \in 1..Len(list) }

\* C18: the values reported for a cell do not depend on the order of the
\* rows: the file with any two neighbouring rows exchanged is processed
\* without error too and gives the same record for every cell; only the
\* order of the records may differ.
C18_RowOrderDoesNotMatter ==
    Processed =>
        \A i \in 1..(Len(file_rows) - 1) :
            \E other \in { process_measurement_file(nominal_capacity_ah,
                                                    SwapRows(file_rows, i),
                                                    lstsq_on_nan) } :
                /\ other.raised = "none"
                /\ RecordsOf(other.metrics) = RecordsOf(metrics)

\* Cell 2's later sample comes first in the file, its earlier sample last,
\* and exchanging the first two rows changes the order of the records.
C18_Witness ==
    /\ Processed /\ WellFormed(file_rows)
    /\ Len(file_rows) = 3
    /\ file_rows[1].cell_id = R(2) /\ file_rows[1].timestamp = 2
    /\ file_rows[2].cell_id = R(1)
    /\ file_rows[3].cell_id = R(2) /\ file_rows[3].timestamp = 1
    /\ file_rows[1].voltage_v # file_rows[3].voltage_v
    /\ metrics[1].cell_id = 2
    /\ process_measurement_file(nominal_capacity_ah, SwapRows(file_rows, 1),
                                lstsq_on_nan).metrics[1].cell_id = 1

\* C19: the record of a cell depends on the cell's own rows only: it is the
\* record that the file gives with the rows of all other cells removed, so
\* two files that agree on the rows of a cell agree on its record.
C19_RecordDependsOnOwnRowsOnly ==
    Processed =>
        \A k \in 1..Len(metrics) :
            \E alone \in { process_measurement_file(
                               nominal_capacity_ah,
                               CellSeries(file_rows, metrics[k].cell_id),
                               lstsq_on_nan) } :
                /\ alone.raised = "none"
                /\ alone.metrics = <<metrics[k]>>

\* Two cells with different voltages, currents and temperatures in one file,
\* cell 2 with a regression over two samples.
C19_Witness ==
    /\ Processed /\ WellFormed(file_rows)
    /\ Len(metrics) = 2
    /\ Len(CellSeries(file_rows, 2)) = 2
    /\ metrics[1].internal_resistance = R(80)
    /\ metrics[2].internal_resistance = R(0)
    /\ metrics[1].soc_percent # metrics[2].soc_percent
    /\ metrics[1].temperature_c # metrics[2].temperature_c

\* The number of samples of a cell whose current is not 0.
NonzeroCount(cell) ==
    Cardinality({ i \in 1..Len(cell) : cell[i].current_a # R(0) })

\* The strictest thresholds a healthy cell can meet: resistance at most 0,
\* SoH at least 100.
StrictestThresholds ==
    [type \in { "soh", "resistance" } |->
        IF type = "soh" THEN <<R(100), None>> ELSE <<None, R(0)>>]

\* C21: the soh_percent of every record lies in [70, 100], and a cell with
\* fewer than 2 samples of nonzero current is reported with
\* internal_resistance 0 and soh_percent 100, which pass even a 'resistance'
\* max_value of 0 and a 'soh' min_value of 100.
C21_SohFloorAndZeroFallbackHealthy ==
    Processed =>
        \A k \in 1..Len(metrics) :
            /\ metrics[k].soh_percent # NaN
            /\ RLe(R(70), metrics[k].soh_percent)
            /\ RLe(metrics[k].soh_percent, R(100))
            /\ NonzeroCount(CellSeries(file_rows, metrics[k].cell_id)) < 2 =>
                  /\ metrics[k].internal_resistance = R(0)
                  /\ metrics[k].soh_percent = R(100)
                  /\ check_thresholds(metrics[k], StrictestThresholds)

\* Cell 1 has a sample under load and a sample at rest with a higher voltage:
\* one sample of nonzero current, resistance 0 and SoH 100, in a file that
\* holds a second cell.
C21_Witness ==
    /\ Processed /\ WellFormed(file_rows)
    /\ Len(metrics) = 2
    /\ \E k \in 1..2 :
          /\ metrics[k].cell_id = 1
          /\ Len(CellSeries(file_rows, 1)) = 2
          /\ NonzeroCount(CellSeries(file_rows, 1)) = 1
          /\ metrics[k].internal_resistance = R(0)
          /\ metrics[k].soh_percent = R(100)

---------------------------------------------------------------------------
(* Properties of _check_thresholds.                                        *)

\* The bound a check reads: the min_value (side 1) or max_value (side 2) of
\* the entry of the metric type, None when the entry or the bound is missing.
BoundOf(dict, type, side) ==
    IF type \in DOMAIN dict THEN dict[type][side] ELSE None

\* C14: _check_thresholds returns the conjunction of the checks that apply:
\* soh_percent >= min_value of 'soh', internal_resistance <= max_value of
\* 'resistance', temperature_c <= max_value of 'temperature', each only when
\* that bound is set, a value equal to its bound passing; with no applicable
\* check, and so for the empty mapping, it returns True.
C14_VerdictIsAndOfApplicableChecks ==
    op = "_check_thresholds" =>
        LET soh_min  == BoundOf(thresholds, "soh", 1)
            res_max  == BoundOf(thresholds, "resistance", 2)
            temp_max == BoundOf(thresholds, "temperature", 2)
        IN  /\ passes \in BOOLEAN
            /\ passes <=>
                  /\ soh_min # None =>
                        (metric_data.soh_percent # NaN
                         /\ ~RLt(metric_data.soh_percent, soh_min))
                  /\ res_max # None =>
                        (metric_data.internal_resistance # NaN
                         /\ ~RLt(res_max, metric_data.internal_resistance))
                  /\ temp_max # None =>
                        (metric_data.temperature_c # NaN
                         /\ ~RLt(temp_max, metric_data.temperature_c))
            /\ (soh_min = None /\ res_max = None /\ temp_max = None) => passes
            /\ DOMAIN thresholds = {} => passes

\* All three checks apply, each value equals its bound, and the metric passes.
C14_Witness ==
    /\ op = "_check_thresholds"
    /\ BoundOf(thresholds, "soh", 1) = metric_data.soh_percent
    /\ BoundOf(thresholds, "resistance", 2) = metric_data.internal_resistance
    /\ BoundOf(thresholds, "temperature", 2) = metric_data.temperature_c
    /\ Len(checks) = 3
    /\ passes = TRUE

\* An entry that asks for no check: of a metric type _check_thresholds does
\* not know, a 'soh' entry without min_value, a 'resistance' or 'temperature'
\* entry without max_value.
AsksNoCheck(dict, type) ==
    \/ type \notin { "soh", "resistance", "temperature" }
    \/ type = "soh" /\ dict[type][1] = None
    \/ type \in { "resistance", "temperature" } /\ dict[type][2] = None

\* The mapping without the entry of the metric type.
WithoutEntry(dict, type) == [t \in DOMAIN dict \ { type } |-> dict[t]]

\* C20: an entry of an unknown metric type, a 'soh' entry with only
\* max_value and a 'resistance' or 'temperature' entry with only min_value
\* leave the verdict what it is without the entry.
C20_IrrelevantEntriesChangeNothing ==
    op = "_check_thresholds" =>
        \A type \in DOMAIN thresholds :
            AsksNoCheck(thresholds, type) =>
                passes = check_thresholds(metric_data,
                                          WithoutEntry(thresholds, type))

\* A metric that is on the wrong side of every bound that is set, with
\* entries of all four types of which none asks for a check: it passes.
C20_Witness ==
    /\ op = "_check_thresholds"
    /\ DOMAIN thresholds = MetricTypes
    /\ \A type \in MetricTypes : AsksNoCheck(thresholds, type)
    /\ thresholds["soh"][2] # None
    /\ RLt(thresholds["soh"][2], metric_data.soh_percent)
    /\ thresholds["resistance"][1] # None
    /\ RLt(metric_data.internal_resistance, thresholds["resistance"][1])
    /\ thresholds["temperature"][1] # None
    /\ metric_data.temperature_c # NaN
    /\ RLt(metric_data.temperature_c, thresholds["temperature"][1])
    /\ thresholds["soc"] = <<R(60), R(40)>>
    /\ checks = <<>>
    /\ passes = TRUE

---------------------------------------------------------------------------
(* Properties of process_and_store_metrics.                                *)

\* C16: one call of process_and_store_metrics queries the thresholds once,
\* before it evaluates any metric, and the verdict of every metric of the
\* batch is the verdict under that one threshold_dict, whatever thresholds
\* are created while the call runs.
C16_OneThresholdSnapshotPerRun ==
    op = "process_and_store_metrics" =>
        /\ threshold_reads <= 1
        /\ threshold_reads = 0 => health_metrics = None
        /\ pc \in { "for_metric_data", "commit", "refresh", "return" } =>
              /\ threshold_reads = 1
              /\ \A k \in 1..Len(health_metrics) :
                    health_metrics[k].passes_threshold
                        = check_thresholds(metrics[k], threshold_dict)

\* Both cells of a batch are evaluated, a threshold was created after the
\* query, and under the thresholds now in the table the second cell's verdict
\* would be another one.
C16_Witness ==
    /\ op = "process_and_store_metrics"
    /\ pc = "for_metric_data"
    /\ Len(health_metrics) = 2
    /\ threshold_dict # threshold_dict_of(db_thresholds)
    /\ health_metrics[1].passes_threshold
          = check_thresholds(metrics[1], threshold_dict_of(db_thresholds))
    /\ health_metrics[2].passes_threshold
          # check_thresholds(metrics[2], threshold_dict_of(db_thresholds))

\* The metric types among rows.
TypesOf(rows) == { rows[i].metric_type : i \in 1..Len(rows) }

\* The position of the last row of a metric type.
LastOfType(rows, type) ==
    CHOOSE i \in 1..Len(rows) :
        /\ rows[i].metric_type = type
        /\ \A j \in (i + 1)..Len(rows) : rows[j].metric_type # type

\* For each metric type the bounds of its last row.
AppliedThresholds(rows) ==
    [type \in TypesOf(rows) |->
        <<rows[LastOfType(rows, type)].min_value,
          rows[LastOfType(rows, type)].max_value>>]

\* C22: when several HealthThreshold rows have the same metric_type, only the
\* last one the query returned is applied: every verdict of the batch is the
\* verdict under, for each metric type, the bounds of its last row, so that
\* a metric violating an earlier, stricter row and satisfying the last,
\* looser one is stored with passes_threshold = True.
C22_LastThresholdOfATypeApplies ==
    (op = "process_and_store_metrics" /\ threshold_rows # None) =>
        /\ \A k \in 1..Len(health_metrics) :
              health_metrics[k].passes_threshold
                  = check_thresholds(metrics[k],
                                     AppliedThresholds(threshold_rows))
        /\ pc = "return" =>
              \A k \in 1..Len(health_metrics) :
                  \E n \in 1..Len(db_health_metrics) :
                      db_health_metrics[n] = health_metrics[k]

\* A stricter (50) and then a looser (100) resistance threshold were created
\* before the upload; the cell of 80 milliohm is stored as passing.
C22_Witness ==
    /\ op = "process_and_store_metrics"
    /\ pc = "return"
    /\ Len(threshold_rows) = 2
    /\ threshold_rows[1].metric_type = "resistance"
    /\ threshold_rows[1].max_value = R(50)
    /\ threshold_rows[2].metric_type = "resistance"
    /\ threshold_rows[2].max_value = R(100)
    /\ \E n \in 1..Len(db_health_metrics) :
          /\ db_health_metrics[n].measurement_id = measurement_id
          /\ db_health_metrics[n].internal_resistance = R(80)
          /\ ~ RLe(db_health_metrics[n].internal_resistance, R(50))
          /\ db_health_metrics[n].passes_threshold = TRUE

\* The stored HealthMetric rows of a measurement, in metric_id order.
StoredFor(id) ==
    LET OfMeasurement(h) == h.measurement_id = id
    IN  SelectSeq(db_health_metrics, OfMeasurement)

\* The Measurement row of the request is stored with the path of its file.
MeasurementStored ==
    /\ measurement_id \in 1..Len(db_measurements)
    /\ db_measurements[measurement_id]
           = measurement_row(measurement_id, filepath_of(measurement_id))

\* C23: in create_measurement the Measurement row and its raw_data_path are
\* committed before processing starts; when process_and_store_metrics fails,
\* the request ends with HTTP 500, no HealthMetric row exists for the
\* measurement, and the Measurement row remains stored.
C23_FailedUploadKeepsOnlyTheMeasurement ==
    /\ op = "process_and_store_metrics" => MeasurementStored
    /\ (op = "create_measurement" /\ pc = "response") =>
          /\ http_status = 500 <=> raised # "none"
          /\ raised # "none" =>
                /\ StoredFor(measurement_id) = <<>>
                /\ MeasurementStored

\* The request was answered with 500 after db.refresh raised: the Measurement
\* row is stored, and so are the HealthMetric rows of the batch.
C23_Witness ==
    /\ op = "create_measurement"
    /\ pc = "response"
    /\ http_status = 500
    /\ raised = "SQLAlchemyError"
    /\ MeasurementStored
    /\ health_metrics # None
    /\ Len(health_metrics) = 2
    /\ StoredFor(measurement_id) = health_metrics

\* The statements of process_and_store_metrics the claim names as raising:
\* the processing of the file, the threshold query and the commit.
RaisedBeforeOrAtCommit ==
    /\ raised # "none"
    /\ pc \in { "process_measurement_file", "query_thresholds", "commit" }

====
